---- MODULE Spec2Model ----
(***************************************************************************)
(* The Gorgias -> Seal bridge: an authenticated Express application that   *)
(* forwards subscription requests to the Seal merchant API.  The           *)
(* repository holds two builds of server.js: seal-node-app/server.js       *)
(* (variant "app") and an older one (variant "root", with the charge-now   *)
(* route).  One request is followed from its arrival to its response;      *)
(* requests share no state, so one slot describes all of them.             *)
(***************************************************************************)
EXTENDS Integers, Sequences, FiniteSets, TLC

VARIABLES variant, pc, req, calls, replies, sent, loc, ran

vars == <<variant, pc, req, calls, replies, sent, loc, ran>>

(* ----------------------------- bounds --------------------------------- *)
\* longest list of billing attempts an upstream lookup returns
MaxAttempts == 2

(* ------------------------- JavaScript values --------------------------- *)
Undef == [t |-> "undef"]
NaN == [t |-> "nan"]
Num(n) == [t |-> "num", v |-> n]
Bool(b) == [t |-> "bool", v |-> b]
\* a string, as the sequence of its characters
Str(s) == [t |-> "str", v |-> s]
\* a string the program only compares or passes on
Lit(s) == [t |-> "lit", v |-> s]
\* a string that Date parses to the instant n
DateStr(n) == [t |-> "date", v |-> n]
Arr(l) == [t |-> "arr", v |-> l]
Obj(r) == [t |-> "obj", v |-> r]
EmptyObj == Obj(<<>>)

\* ToBoolean
Truthy(x) ==
  CASE x.t = "undef" -> FALSE
    [] x.t = "nan" -> FALSE
    [] x.t = "num" -> x.v # 0
    [] x.t = "bool" -> x.v
    [] x.t = "str" -> Len(x.v) > 0
    [] OTHER -> TRUE

\* a || b
Or(a, b) == IF Truthy(a) THEN a ELSE b

\* x?.f
Get(x, f) == IF x.t = "obj" /\ f \in DOMAIN x.v THEN x.v[f] ELSE Undef

IsArray(x) == x.t = "arr"

IsSpace(c) == c = " "

RECURSIVE TrimStart(_)
TrimStart(s) ==
  IF s # <<>> /\ IsSpace(Head(s)) THEN TrimStart(Tail(s)) ELSE s

RECURSIVE TrimEnd(_)
TrimEnd(s) ==
  IF s # <<>> /\ IsSpace(s[Len(s)]) THEN TrimEnd(SubSeq(s, 1, Len(s) - 1)) ELSE s

\* String.prototype.trim
Trim(s) == TrimEnd(TrimStart(s))

Upper == <<"A", "B", "C", "D", "E", "F", "G", "H", "I", "J", "K", "L", "M",
           "N", "O", "P", "Q", "R", "S", "T", "U", "V", "W", "X", "Y", "Z">>
Lower == <<"a", "b", "c", "d", "e", "f", "g", "h", "i", "j", "k", "l", "m",
           "n", "o", "p", "q", "r", "s", "t", "u", "v", "w", "x", "y", "z">>

LowerChar(c) ==
  IF \E i \in DOMAIN Upper : Upper[i] = c
  THEN Lower[CHOOSE i \in DOMAIN Upper : Upper[i] = c]
  ELSE c

\* String.prototype.toLowerCase
ToLowerCase(s) == [i \in DOMAIN s |-> LowerChar(s[i])]

Digits == <<"0", "1", "2", "3", "4", "5", "6", "7", "8", "9">>

IsDigit(c) == \E i \in DOMAIN Digits : Digits[i] = c

DigitVal(c) == (CHOOSE i \in DOMAIN Digits : Digits[i] = c) - 1

RECURSIVE DecVal(_)
DecVal(s) ==
  IF s = <<>> THEN 0 ELSE 10 * DecVal(SubSeq(s, 1, Len(s) - 1)) + DigitVal(s[Len(s)])

\* Number(x)
ToNumber(x) ==
  CASE x.t = "num" -> x
    [] x.t = "bool" -> Num(IF x.v THEN 1 ELSE 0)
    [] x.t = "str" ->
         IF \A i \in DOMAIN Trim(x.v) : IsDigit(Trim(x.v)[i])
         THEN Num(DecVal(Trim(x.v)))
         ELSE NaN
    [] OTHER -> NaN

EncodeChar(c) ==
  CASE c = "@" -> <<"%", "4", "0">>
    [] c = " " -> <<"%", "2", "0">>
    [] OTHER -> <<c>>

RECURSIVE EncodeURIComponent(_)
EncodeURIComponent(s) ==
  IF s = <<>> THEN <<>> ELSE EncodeChar(Head(s)) \o EncodeURIComponent(Tail(s))

(* --------------------------- configuration ----------------------------- *)
BRIDGE_BEARER == "s3cret"

Variants == {"app", "root"}

(* ------------------------------- auth ---------------------------------- *)
ExpectedAuth == Lit("Bearer " \o BRIDGE_BEARER)

AuthMutant(r) == r.auth.t = "undef"

\* checkAuth: TRUE when the request is turned away
AuthRejects(r) == r.auth # ExpectedAuth

Unauthorized == [status |-> 401, body |-> [error |-> Lit("Unauthorized")]]

(* -------------------------- upstream gateway --------------------------- *)
\* what fetch does: it throws, or it yields a response
Throw == [kind |-> "throw"]
Reply(status, ct, payload) ==
  [kind |-> "resp", status |-> status, ct |-> ct, payload |-> payload]

\* resp.ok
RespOk(status) == status >= 200 /\ status <= 299

NonJson == Obj([non_json |-> Lit("text")])

\* callSeal on a response: {ok, status, body}
CallSealResultMutant(r) ==
  [ok |-> TRUE,
   status |-> r.status,
   body |-> CASE r.ct = "json" -> r.payload
              [] r.ct = "badjson" -> EmptyObj
              [] OTHER -> NonJson]

CallSealResult(r) ==
  [ok |-> RespOk(r.status),
   status |-> r.status,
   body |-> CASE r.ct = "json" -> r.payload
              [] r.ct = "badjson" -> EmptyObj
              [] OTHER -> NonJson]

BridgeException ==
  [status |-> 200, body |-> [error |-> [reason |-> "bridge_exception", message |-> "fetch failed"]]]

TypeErrorException ==
  [status |-> 200, body |-> [error |-> [reason |-> "bridge_exception", message |-> "trim is not a function"]]]

UpstreamError(r) ==
  [status |-> 200, body |-> [error |-> [reason |-> "upstream_error", status |-> r.status, body |-> r.body]]]

Call(method, path, arg, body) ==
  [method |-> method, path |-> path, arg |-> arg, body |-> body]

\* the handler's local variables that outlive an await
NoLoc == [attemptId |-> Undef, arr |-> <<>>]

\* where a handler stands after a step: waiting on an upstream call, or done
Await(at, c, l) == [pc |-> at, calls |-> c, sent |-> <<>>, loc |-> l]
Respond(c, response, l) == [pc |-> "responded", calls |-> c, sent |-> <<response>>, loc |-> l]

NoBody == [action |-> Undef, date |-> Undef, time |-> Undef, timezone |-> Undef,
           reset_schedule |-> Undef, attempt_id |-> Undef]

Request(op, auth, id, email, body) ==
  [op |-> op, auth |-> auth, id |-> id, email |-> email, body |-> body]

(* ------------------------------ inputs --------------------------------- *)
AuthHeaders ==
  {Undef, ExpectedAuth, Lit("bearer s3cret"), Lit("Bearer s3cret "), Lit("Bearer other")}

\* the :id path parameter
IdParams == {<<"0">>, <<"4", "2">>, <<"a", "b", "c">>}

Emails == {Undef, Str(<<>>), Str(<<" ", " ">>), Str(<<"a", "@", "b">>), Str(<<" ", "a", "@", "b", " ">>)}

Actions ==
  {Undef, Num(7),
   Str(<<"p", "a", "u", "s", "e">>), Str(<<"P", "A", "U", "S", "E">>),
   Str(<<"R", "e", "s", "u", "m", "e">>), Str(<<"c", "a", "n", "c", "e", "l">>),
   Str(<<"r", "e", "a", "c", "t", "i", "v", "a", "t", "e">>),
   Str(<<"d", "e", "l", "e", "t", "e">>), Str(<<"p", "a", "u", "s", "e", "d">>)}

\* date, time and timezone as the caller may send them
Fields == {Undef, Str(<<>>), Str(<<" ">>), Str(<<" ", "x">>), Num(7)}

ResetValues == {Undef, Bool(TRUE), Bool(FALSE)}

AttemptIdValues == {Undef, Num(0), Num(7), Str(<<"a", "b", "c">>)}

(* -------------------- GET /api/subscriptions?email= -------------------- *)
\* .toString() of a string or of a one-digit number
ToStringSeq(x) == IF x.t = "str" THEN x.v ELSE <<Digits[x.v + 1]>>

RawEmail(r) == Trim(ToStringSeq(Or(r.email, Str(<<>>))))

MissingEmail ==
  [status |-> 200, body |-> [subscriptions |-> <<>>, error |-> [reason |-> "missing_email"]]]

ListBegin(r) ==
  IF RawEmail(r) = <<>>
  THEN Respond(<<>>, MissingEmail, NoLoc)
  ELSE Await("await_list",
             <<Call("GET", "/subscriptions?query=&with-items=true",
                    Str(EncodeURIComponent(RawEmail(r))), Undef)>>,
             NoLoc)

ProbeRootMutant(body) ==
  IF IsArray(Get(body, "subscriptions")) THEN Get(body, "subscriptions").v
  ELSE IF IsArray(Get(body, "payload")) THEN Get(body, "payload").v
  ELSE IF IsArray(Get(Get(body, "payload"), "subscriptions"))
       THEN Get(Get(body, "payload"), "subscriptions").v
  ELSE <<>>

\* the envelope probe of the older build
ProbeRoot(body) ==
  IF IsArray(Get(body, "payload")) THEN Get(body, "payload").v
  ELSE IF IsArray(Get(body, "subscriptions")) THEN Get(body, "subscriptions").v
  ELSE IF IsArray(Get(Get(body, "payload"), "subscriptions"))
       THEN Get(Get(body, "payload"), "subscriptions").v
  ELSE <<>>

\* the envelope probe of seal-node-app
ProbeApp(body) ==
  IF IsArray(Get(Get(body, "payload"), "subscriptions"))
  THEN Get(Get(body, "payload"), "subscriptions").v
  ELSE IF IsArray(Get(body, "subscriptions")) THEN Get(body, "subscriptions").v
  ELSE IF IsArray(Get(body, "payload")) THEN Get(body, "payload").v
  ELSE <<>>

Probe(v, body) == IF v = "app" THEN ProbeApp(body) ELSE ProbeRoot(body)

Null == [t |-> "null"]

MapItem(i) == [title |-> Get(i, "title"), qty |-> Get(i, "quantity"), id |-> Get(i, "id")]

\* list.map(s => ...)
MapSub(s) ==
  [id |-> Get(s, "id"),
   status |-> Get(s, "status"),
   next_charge_at |->
     Or(Or(Or(Get(s, "next_billing"), Get(s, "next_order_datetime")),
           Get(s, "next_charge_at")), Null),
   items |-> [k \in DOMAIN Or(Get(s, "items"), Arr(<<>>)).v |->
                MapItem(Or(Get(s, "items"), Arr(<<>>)).v[k])],
   discounts |-> Or(Get(s, "discount_codes"), Arr(<<>>)).v]

ListUpstreamError(r) ==
  [status |-> 200,
   body |-> [subscriptions |-> <<>>,
             error |-> [reason |-> "upstream_error", status |-> r.status, body |-> r.body]]]

ListException ==
  [status |-> 200,
   body |-> [subscriptions |-> <<>>,
             error |-> [reason |-> "bridge_exception", message |-> "fetch failed"]]]

ListResume(v, c, reply) ==
  IF reply.kind = "throw" THEN Respond(c, ListException, NoLoc)
  ELSE IF ~CallSealResult(reply).ok
  THEN Respond(c, ListUpstreamError(CallSealResult(reply)), NoLoc)
  ELSE Respond(c,
         [status |-> 200,
          body |-> [subscriptions |->
                      [k \in DOMAIN Probe(v, CallSealResult(reply).body) |->
                         MapSub(Probe(v, CallSealResult(reply).body)[k])]]],
         NoLoc)

\* sample subscriptions as Seal returns them
SubP == Obj([id |-> Num(1), status |-> Lit("ACTIVE"), next_order_datetime |-> DateStr(1),
             next_charge_at |-> DateStr(2)])
SubS == Obj([id |-> Num(2), status |-> Lit("PAUSED"), next_billing |-> DateStr(3),
             items |-> Arr(<<Obj([title |-> Lit("Tea"), quantity |-> Num(2), id |-> Num(9)])>>),
             discount_codes |-> Arr(<<Lit("TEN")>>)])
SubN == Obj([id |-> Num(3)])

ErrBodies == {Obj([error |-> Lit("not found")])}

ListPayloads ==
  {Undef, Arr(<<>>), Arr(<<SubP>>), Arr(<<SubP, SubS>>), Lit("none"),
   Obj([subscriptions |-> Arr(<<SubN>>)]), Obj([subscriptions |-> Arr(<<>>)]),
   Obj([total |-> Num(1)])}

ListSubscriptions == {Undef, Arr(<<>>), Arr(<<SubS>>), Lit("none")}

ListBodies ==
  {Obj([payload |-> p, subscriptions |-> s]) : p \in ListPayloads, s \in ListSubscriptions}

\* what the upstream can answer with bodies drawn from B
Replies(B) ==
  {Throw}
    \cup {Reply(200, "json", b) : b \in B}
    \cup {Reply(404, "json", b) : b \in ErrBodies}
    \cup {Reply(200, "badjson", Undef), Reply(204, "text", Undef), Reply(500, "text", Undef)}

(* ---------------------- PUT /api/subscription/:id ---------------------- *)
BadRequest(text) == [status |-> 400, body |-> [error |-> Lit(text)]]

AllowedActions ==
  {<<"p", "a", "u", "s", "e">>, <<"r", "e", "s", "u", "m", "e">>,
   <<"c", "a", "n", "c", "e", "l">>, <<"r", "e", "a", "c", "t", "i", "v", "a", "t", "e">>}

PathId(r) == ToNumber(Str(r.id))

StatusBeginApp(r) ==
  LET id == PathId(r)
      action == ToLowerCase(ToStringSeq(Or(r.body.action, Str(<<>>))))
  IN IF ~Truthy(id) \/ action = <<>>
     THEN Respond(<<>>, BadRequest("Missing id or action"), NoLoc)
     ELSE IF action \notin AllowedActions
     THEN Respond(<<>>, BadRequest("Invalid action. Must be: pause, resume, cancel, or reactivate"), NoLoc)
     ELSE Await("await_status",
                <<Call("PUT", "/subscription", Undef, [id |-> id, action |-> Str(action)])>>,
                NoLoc)

StatusBeginRoot(r) ==
  LET id == PathId(r)
      action == ToStringSeq(Or(r.body.action, Str(<<>>)))
  IN IF ~Truthy(id) \/ action = <<>>
     THEN Respond(<<>>, BadRequest("Missing id or action"), NoLoc)
     ELSE Await("await_status",
                <<Call("PUT", "/subscriptions/:id", id, [action |-> Str(action)])>>,
                NoLoc)

StatusBegin(v, r) == IF v = "app" THEN StatusBeginApp(r) ELSE StatusBeginRoot(r)

StatusUpstreamErrorApp(c, r) ==
  [status |-> 200,
   body |-> [error |-> [reason |-> "upstream_error", status |-> r.status, body |-> r.body,
                        attempted_endpoint |-> c[1].path,
                        request_payload |-> c[1].body]]]

\* the pass-through of the upstream body, or the error shapes
Forward(v, c, reply) ==
  IF reply.kind = "throw" THEN Respond(c, BridgeException, NoLoc)
  ELSE IF ~CallSealResult(reply).ok
  THEN Respond(c, IF v = "app" THEN StatusUpstreamErrorApp(c, CallSealResult(reply))
                  ELSE UpstreamError(CallSealResult(reply)), NoLoc)
  ELSE Respond(c, [status |-> 200, body |-> CallSealResult(reply).body], NoLoc)

(* ----------------- PUT /api/subscription/:id/charge-now ---------------- *)
ChargeBegin(r) ==
  LET id == PathId(r)
      reset == IF Truthy(r.body.reset_schedule) THEN Lit("true") ELSE Lit("true")
  IN IF ~Truthy(id)
     THEN Respond(<<>>, BadRequest("Missing id"), NoLoc)
     ELSE Await("await_charge",
                <<Call("PUT", "/subscriptions/:id/charge_now", id, [reset_schedule |-> reset])>>,
                NoLoc)

PassBodies == {Obj([success |-> Bool(TRUE)])}

(* ---------------- PUT /api/subscription/:id/reschedule ----------------- *)
\* seal-node-app: req.body?.reset_schedule !== false
ResetScheduleApp(body) == Bool(body.reset_schedule # Bool(FALSE))

\* the older build: the string "true" whatever the caller sends
ResetScheduleRoot(body) == IF Truthy(body.reset_schedule) THEN Lit("true") ELSE Lit("true")

ResetSchedule(v, body) == IF v = "app" THEN ResetScheduleApp(body) ELSE ResetScheduleRoot(body)

CallerAttemptId(body) ==
  IF Truthy(body.attempt_id) THEN ToNumber(body.attempt_id) ELSE Num(0)

\* (req.body?.f || "").trim() throws on a value that is no string
TrimThrows(x) == Or(x, Str(<<>>)).t # "str"

TrimmedField(x) == Trim(Or(x, Str(<<>>)).v)

UpdatePayload(v, r, attemptId) ==
  [id |-> attemptId,
   subscription_id |-> PathId(r),
   action |-> "reschedule",
   date |-> Str(TrimmedField(r.body.date)),
   time |-> Str(TrimmedField(r.body.time)),
   timezone |-> Str(TrimmedField(r.body.timezone)),
   reset_schedule |-> ResetSchedule(v, r.body)]

UpdateCall(v, r, attemptId) ==
  Call("PUT", "/subscription-billing-attempt", Undef, UpdatePayload(v, r, attemptId))

LookupCall(r) ==
  Call("GET", "/subscription-billing-attempts?subscription_id=", PathId(r), Undef)

NoBillingAttempt ==
  [status |-> 200,
   body |-> [error |-> [reason |-> "no_billing_attempt_found",
                        message |-> "Could not find an upcoming billing attempt for this subscription."]]]

RescheduleBeginMutant(v, r) ==
  IF ~Truthy(PathId(r))
  THEN Respond(<<>>, BadRequest("Missing subscription id"), NoLoc)
  ELSE IF TrimThrows(r.body.date) \/ TrimThrows(r.body.time) \/ TrimThrows(r.body.timezone)
  THEN Respond(<<>>, TypeErrorException, NoLoc)
  ELSE IF ~Truthy(CallerAttemptId(r.body))
  THEN Await("await_lookup", <<LookupCall(r)>>,
             [NoLoc EXCEPT !.attemptId = CallerAttemptId(r.body)])
  ELSE IF TrimmedField(r.body.date) = <<>> \/ TrimmedField(r.body.time) = <<>>
          \/ TrimmedField(r.body.timezone) = <<>>
  THEN Respond(<<>>, BadRequest("Missing date/time/timezone"), NoLoc)
  ELSE Await("await_update", <<UpdateCall(v, r, CallerAttemptId(r.body))>>,
             [NoLoc EXCEPT !.attemptId = CallerAttemptId(r.body)])

\* the handler up to its first await
RescheduleBegin(v, r) ==
  IF ~Truthy(PathId(r))
  THEN Respond(<<>>, BadRequest("Missing subscription id"), NoLoc)
  ELSE IF TrimThrows(r.body.date) \/ TrimThrows(r.body.time) \/ TrimThrows(r.body.timezone)
  THEN Respond(<<>>, TypeErrorException, NoLoc)
  ELSE IF TrimmedField(r.body.date) = <<>> \/ TrimmedField(r.body.time) = <<>>
          \/ TrimmedField(r.body.timezone) = <<>>
  THEN Respond(<<>>, BadRequest("Missing date/time/timezone"), NoLoc)
  ELSE IF ~Truthy(CallerAttemptId(r.body))
  THEN Await("await_lookup", <<LookupCall(r)>>,
             [NoLoc EXCEPT !.attemptId = CallerAttemptId(r.body)])
  ELSE Await("await_update", <<UpdateCall(v, r, CallerAttemptId(r.body))>>,
             [NoLoc EXCEPT !.attemptId = CallerAttemptId(r.body)])

\* the two-location probe of the lookup's body
AttemptsOf(body) ==
  IF IsArray(Get(body, "payload")) THEN Get(body, "payload").v
  ELSE IF IsArray(Get(body, "attempts")) THEN Get(body, "attempts").v
  ELSE <<>>

\* a.date_time || a.datetime || a.scheduled_at || 0
ScheduledRaw(a) ==
  Or(Or(Or(Get(a, "date_time"), Get(a, "datetime")), Get(a, "scheduled_at")), Num(0))

\* new Date(x) as a number: the instant, or NaN for an invalid date
DateValue(x) ==
  CASE x.t = "date" -> Num(x.v)
    [] x.t = "num" -> x
    [] OTHER -> NaN

\* the comparator handed to sort: dateA - dateB
Comparator(a, b) ==
  IF DateValue(ScheduledRaw(a)).t = "nan" \/ DateValue(ScheduledRaw(b)).t = "nan"
  THEN NaN
  ELSE Num(DateValue(ScheduledRaw(a)).v - DateValue(ScheduledRaw(b)).v)

\* Array.prototype.sort reads a NaN from the comparator as +0
SortCompare(a, b) == IF Comparator(a, b).t = "nan" THEN 0 ELSE Comparator(a, b).v

RECURSIVE InsertSorted(_, _)
InsertSorted(s, x) ==
  IF s = <<>> THEN <<x>>
  ELSE IF SortCompare(Head(s), x) > 0 THEN <<x>> \o s
  ELSE <<Head(s)>> \o InsertSorted(Tail(s), x)

RECURSIVE StableSort(_)
StableSort(arr) ==
  IF arr = <<>> THEN <<>>
  ELSE InsertSorted(StableSort(SubSeq(arr, 1, Len(arr) - 1)), arr[Len(arr)])

\* a consistent comparator: being equal under it is transitive
Consistent(arr) ==
  \A i, j, k \in DOMAIN arr :
    SortCompare(arr[i], arr[j]) = 0 /\ SortCompare(arr[j], arr[k]) = 0
      => SortCompare(arr[i], arr[k]) = 0

Reorderings(arr) ==
  {[i \in DOMAIN arr |-> arr[p[i]]] : p \in Permutations(DOMAIN arr)}

SortResultsMutant(arr) ==
  IF arr = <<>> THEN {arr}
  ELSE {<<arr[Len(arr)]>> \o SubSeq(arr, 1, Len(arr) - 1)}

\* arr.sort(comparator): the stable ascending order, or with an inconsistent
\* comparator an order the engine chooses
SortResults(arr) == IF Consistent(arr) THEN {StableSort(arr)} ELSE Reorderings(arr)

LookupResumeMutant(v, r, c, l, reply, sorted) ==
  IF reply.kind = "throw" THEN Respond(c, BridgeException, l)
  ELSE IF ~CallSealResult(reply).ok
  THEN Respond(c, UpstreamError(CallSealResult(reply)), l)
  ELSE LET attemptId == IF Len(sorted) > 0 THEN ToNumber(Get(sorted[1], "id"))
                        ELSE l.attemptId
           l2 == [attemptId |-> attemptId, arr |-> sorted]
       IN IF Len(sorted) = 0
          THEN Respond(c, NoBillingAttempt, l2)
          ELSE Await("await_update", Append(c, UpdateCall(v, r, attemptId)), l2)

\* the handler from the lookup's answer to its next await; sorted is arr after sort
LookupResume(v, r, c, l, reply, sorted) ==
  IF reply.kind = "throw" THEN Respond(c, BridgeException, l)
  ELSE IF ~CallSealResult(reply).ok
  THEN Respond(c, UpstreamError(CallSealResult(reply)), l)
  ELSE LET attemptId == IF Len(sorted) > 0 THEN ToNumber(Get(sorted[1], "id"))
                        ELSE l.attemptId
           l2 == [attemptId |-> attemptId, arr |-> sorted]
       IN IF ~Truthy(attemptId)
          THEN Respond(c, NoBillingAttempt, l2)
          ELSE Await("await_update", Append(c, UpdateCall(v, r, attemptId)), l2)

UpdateResumeMutant(c, l, reply) ==
  IF reply.kind = "throw"
  THEN Respond(c, [status |-> 500, body |-> [error |-> Lit("Internal Server Error")]], l)
  ELSE IF ~CallSealResult(reply).ok
  THEN Respond(c, UpstreamError(CallSealResult(reply)), l)
  ELSE Respond(c,
         [status |-> 200,
          body |-> [ok |-> TRUE, billing_attempt_id |-> l.attemptId,
                    result |-> CallSealResult(reply).body]],
         l)

\* the handler from the update's answer to its response
UpdateResume(c, l, reply) ==
  IF reply.kind = "throw" THEN Respond(c, BridgeException, l)
  ELSE IF ~CallSealResult(reply).ok
  THEN Respond(c, UpstreamError(CallSealResult(reply)), l)
  ELSE Respond(c,
         [status |-> 200,
          body |-> [ok |-> TRUE, billing_attempt_id |-> l.attemptId,
                    result |-> CallSealResult(reply).body]],
         l)

\* billing attempts as Seal returns them
AttemptIds == {Undef, Num(1), Str(<<"2">>)}

Schedules ==
  {[date_time |-> Undef, datetime |-> Undef, scheduled_at |-> Undef],
   [date_time |-> DateStr(1), datetime |-> DateStr(2), scheduled_at |-> Undef],
   [date_time |-> Undef, datetime |-> DateStr(2), scheduled_at |-> DateStr(1)],
   [date_time |-> Lit("soon"), datetime |-> Undef, scheduled_at |-> DateStr(1)]}

Attempts ==
  {Obj([id |-> i, date_time |-> s.date_time, datetime |-> s.datetime,
        scheduled_at |-> s.scheduled_at]) : i \in AttemptIds, s \in Schedules}

SeqsUpTo(S, n) == UNION {[1..k -> S] : k \in 0..n}

AttemptBodies ==
  {Obj([payload |-> Arr(l)]) : l \in SeqsUpTo(Attempts, MaxAttempts)}
    \cup {Obj([payload |-> p, attempts |-> Arr(l)]) :
            p \in {Undef, Arr(<<>>), Obj([total |-> Num(1)])}, l \in SeqsUpTo(Attempts, 1)}

(* ------------------------------ actions -------------------------------- *)
\* a request arrives: checkAuth, then the handler up to its first await
Arrive(r, begin) ==
  /\ req' = r
  /\ ran' = ~AuthRejects(r)
  /\ LET out == IF AuthRejects(r) THEN Respond(<<>>, Unauthorized, NoLoc) ELSE begin
     IN /\ pc' = out.pc
        /\ calls' = out.calls
        /\ sent' = out.sent
        /\ loc' = out.loc
  /\ replies' = <<>>
  /\ UNCHANGED variant

\* the awaited upstream call settles and the handler runs on
Settle(reply, out) ==
  /\ replies' = Append(replies, reply)
  /\ pc' = out.pc
  /\ calls' = out.calls
  /\ sent' = out.sent
  /\ loc' = out.loc
  /\ UNCHANGED <<variant, req, ran>>

GetSubscriptions ==
  /\ pc = "idle"
  /\ \E a \in AuthHeaders, e \in Emails :
       Arrive(Request("list", a, <<>>, e, NoBody),
              ListBegin(Request("list", a, <<>>, e, NoBody)))

ListReply ==
  /\ pc = "await_list"
  /\ \E reply \in Replies(ListBodies) : Settle(reply, ListResume(variant, calls, reply))

PutSubscription ==
  /\ pc = "idle"
  /\ \E a \in AuthHeaders, i \in IdParams, act \in Actions :
       Arrive(Request("status", a, i, Undef, [NoBody EXCEPT !.action = act]),
              StatusBegin(variant, Request("status", a, i, Undef, [NoBody EXCEPT !.action = act])))

StatusReply ==
  /\ pc = "await_status"
  /\ \E reply \in Replies(PassBodies) : Settle(reply, Forward(variant, calls, reply))

PutChargeNow ==
  /\ pc = "idle"
  /\ variant = "root"
  /\ \E a \in AuthHeaders, i \in IdParams, rs \in ResetValues :
       Arrive(Request("charge", a, i, Undef, [NoBody EXCEPT !.reset_schedule = rs]),
              ChargeBegin(Request("charge", a, i, Undef, [NoBody EXCEPT !.reset_schedule = rs])))

ChargeReply ==
  /\ pc = "await_charge"
  /\ \E reply \in Replies(PassBodies) : Settle(reply, Forward("root", calls, reply))

RescheduleRequests ==
  {Request("reschedule", a, i, Undef,
           [NoBody EXCEPT !.date = d, !.time = t, !.timezone = z,
                          !.reset_schedule = rs, !.attempt_id = at]) :
     a \in AuthHeaders, i \in IdParams, d \in Fields, t \in Fields, z \in Fields,
     rs \in ResetValues, at \in AttemptIdValues}

PutReschedule ==
  /\ pc = "idle"
  /\ \E r \in RescheduleRequests : Arrive(r, RescheduleBegin(variant, r))

LookupReply ==
  /\ pc = "await_lookup"
  /\ \E reply \in Replies(AttemptBodies) :
       \E sorted \in (IF reply.kind = "resp"
                       THEN SortResults(AttemptsOf(CallSealResult(reply).body))
                       ELSE {<<>>}) :
         Settle(reply, LookupResume(variant, req, calls, loc, reply, sorted))

UpdateReply ==
  /\ pc = "await_update"
  /\ \E reply \in Replies(PassBodies) : Settle(reply, UpdateResume(calls, loc, reply))

Init ==
  /\ variant \in Variants
  /\ pc = "idle"
  /\ req = Request("none", Undef, <<>>, Undef, NoBody)
  /\ calls = <<>>
  /\ replies = <<>>
  /\ sent = <<>>
  /\ loc = NoLoc
  /\ ran = FALSE

Next ==
  \/ GetSubscriptions
  \/ ListReply
  \/ PutSubscription
  \/ StatusReply
  \/ PutChargeNow
  \/ ChargeReply
  \/ PutReschedule
  \/ LookupReply
  \/ UpdateReply

Spec == Init /\ [][Next]_vars

(* ----------------------------- properties ------------------------------ *)
Responded == pc = "responded"

\* error.reason of a response, "none" when it has none
Reason(response) ==
  IF "error" \in DOMAIN response.body /\ "reason" \in DOMAIN response.body.error
  THEN response.body.error.reason
  ELSE "none"

IsLookup(c) == c.method = "GET" /\ c.path = "/subscription-billing-attempts?subscription_id="
IsUpdate(c) == c.method = "PUT" /\ c.path = "/subscription-billing-attempt"

HasStatus2xx(reply) == reply.kind = "resp" /\ reply.status \in 200..299

\* C1: on every guarded route a request whose Authorization header is not
\* exactly "Bearer <secret>" is answered 401 {error: "Unauthorized"}, its
\* handler never runs and no upstream call is made for it.
C1_AuthGuard ==
  (pc # "idle" /\ req.auth # Lit("Bearer s3cret"))
    => /\ Responded
       /\ sent = <<[status |-> 401, body |-> [error |-> Lit("Unauthorized")]]>>
       /\ ~ran
       /\ calls = <<>>
       /\ replies = <<>>

C1_Witness ==
  /\ Responded
  /\ req.op = "reschedule"
  /\ req.auth = Lit("Bearer s3cret ")
  /\ req.body.date = Str(<<" ", "x">>)
  /\ sent[1].status = 401

\* C2: a transport failure of an upstream call, whichever call it is, ends
\* the request with HTTP 200 and error.reason "bridge_exception"; no response
\* has a 5xx status and every request that has left its handler has exactly
\* one response.
C2_BridgeException ==
  /\ \A i \in DOMAIN replies :
       replies[i].kind = "throw"
         => /\ Responded
            /\ i = Len(replies)
            /\ Len(calls) = i
            /\ sent[1].status = 200
            /\ Reason(sent[1]) = "bridge_exception"
  /\ \A i \in DOMAIN sent : sent[i].status < 500
  /\ Responded => Len(sent) = 1
  /\ pc \in {"idle", "responded", "await_list", "await_status", "await_charge",
             "await_lookup", "await_update"}

C2_Witness ==
  /\ Responded
  /\ req.op = "reschedule"
  /\ Len(replies) = 2
  /\ HasStatus2xx(replies[1])
  /\ replies[2].kind = "throw"
  /\ Reason(sent[1]) = "bridge_exception"

\* the first array among the candidate values, the empty list when none is one
RECURSIVE FirstArray(_)
FirstArray(cands) ==
  IF cands = <<>> THEN <<>>
  ELSE IF Head(cands).t = "arr" THEN Head(cands).v
  ELSE FirstArray(Tail(cands))

ListSucceeded ==
  /\ Responded
  /\ req.op = "list"
  /\ Len(replies) = 1
  /\ HasStatus2xx(replies[1])

\* the body callSeal hands to the list handler
ListEnvelope ==
  CASE replies[1].ct = "json" -> replies[1].payload
    [] replies[1].ct = "badjson" -> EmptyObj
    [] OTHER -> NonJson

\* the response lists exactly the ids of l, in order
ListsIdsOf(l) ==
  /\ "subscriptions" \in DOMAIN sent[1].body
  /\ Len(sent[1].body.subscriptions) = Len(l)
  /\ \A k \in DOMAIN l : sent[1].body.subscriptions[k].id = Get(l[k], "id")

PayloadFirst ==
  <<Get(ListEnvelope, "payload"), Get(ListEnvelope, "subscriptions"),
    Get(Get(ListEnvelope, "payload"), "subscriptions")>>

NestedFirst ==
  <<Get(Get(ListEnvelope, "payload"), "subscriptions"), Get(ListEnvelope, "subscriptions"),
    Get(ListEnvelope, "payload")>>

\* C3 as claimed: in every build the list comes from the first array among
\* payload, subscriptions, payload.subscriptions, in that order.
C3_PayloadPriority == ListSucceeded => ListsIdsOf(FirstArray(PayloadFirst))

\* C3 as amended: the list comes from the first array in the build's probe
\* order (payload, subscriptions, payload.subscriptions in the older build;
\* payload.subscriptions, subscriptions, payload in seal-node-app), and is
\* empty when no location holds an array.
C3_ProbeOrder ==
  ListSucceeded
    => ListsIdsOf(FirstArray(IF variant = "root" THEN PayloadFirst ELSE NestedFirst))

C3_Witness ==
  /\ ListSucceeded
  /\ variant = "root"
  /\ Get(ListEnvelope, "payload") = Arr(<<SubP, SubS>>)
  /\ Get(ListEnvelope, "subscriptions") = Arr(<<SubS>>)
  /\ Len(sent[1].body.subscriptions) = 2

Allowed ==
  {<<"p", "a", "u", "s", "e">>, <<"r", "e", "s", "u", "m", "e">>,
   <<"c", "a", "n", "c", "e", "l">>, <<"r", "e", "a", "c", "t", "i", "v", "a", "t", "e">>}

\* the action as sent, in lowercase; <<>> when it is no string
ActionLower ==
  IF req.body.action.t = "str" THEN ToLowerCase(req.body.action.v) ELSE <<>>

\* C4: with a valid numeric id, an action outside pause, resume, cancel,
\* reactivate (whatever its letter case) is answered 400 without an upstream
\* call, and an allowed one is forwarded in lowercase in exactly one call.
C4_ActionValidated ==
  (req.op = "status" /\ ran /\ PathId(req).t = "num" /\ PathId(req).v # 0)
    => IF ActionLower \in Allowed
       THEN Len(calls) = 1 /\ calls[1].body.action = Str(ActionLower)
       ELSE Responded /\ sent[1].status = 400 /\ calls = <<>>

(* reschedule *)
RescheduleRan == req.op = "reschedule" /\ ran

\* the lookup was made and answered with a 2xx
LookupSucceeded ==
  /\ RescheduleRan
  /\ Len(calls) >= 1
  /\ IsLookup(calls[1])
  /\ Len(replies) >= 1
  /\ HasStatus2xx(replies[1])

LookupEnvelope ==
  CASE replies[1].ct = "json" -> replies[1].payload
    [] replies[1].ct = "badjson" -> EmptyObj
    [] OTHER -> NonJson

\* the billing attempts as the upstream listed them
Listed == FirstArray(<<Get(LookupEnvelope, "payload"), Get(LookupEnvelope, "attempts")>>)

\* the first present of the three timestamp fields
Stamp(a) ==
  IF Get(a, "date_time") # Undef THEN Get(a, "date_time")
  ELSE IF Get(a, "datetime") # Undef THEN Get(a, "datetime")
  ELSE Get(a, "scheduled_at")

\* every timestamp that is present is a date
AllDated(l) == \A k \in DOMAIN l : Stamp(l[k]).t \in {"undef", "date"}

\* the scheduled instant, epoch 0 when no field is present
Instant(a) == IF Stamp(a).t = "date" THEN Stamp(a).v ELSE 0

IsEarliest(l, k) == \A j \in DOMAIN l : Instant(l[k]) <= Instant(l[j])

FirstEarliest(l) ==
  CHOOSE k \in DOMAIN l : IsEarliest(l, k) /\ \A j \in 1..(k - 1) : ~IsEarliest(l, j)

UpdateIssued == Len(calls) >= 1 /\ IsUpdate(calls[Len(calls)])

Succeeded == Responded /\ "ok" \in DOMAIN sent[1].body

\* C5 as claimed: after a successful lookup of a non-empty list the id used in
\* the reschedule PUT (and echoed) is the id of the attempt with the earliest
\* timestamp, whichever position it has in the list.
C5_EarliestAnyOrder ==
  (LookupSucceeded /\ Listed # <<>> /\ AllDated(Listed) /\ UpdateIssued)
    => \A k \in DOMAIN Listed :
         IsEarliest(Listed, k) => calls[2].body.id = ToNumber(Get(Listed[k], "id"))

\* C5 as amended: with every present timestamp a date, the attempt chosen is
\* the first in list order among those with the earliest timestamp; the PUT
\* carries Number(its id) and a success echoes it, and when that number is 0
\* or NaN no PUT is issued.
C5_EarliestFirstListed ==
  (LookupSucceeded /\ Listed # <<>> /\ AllDated(Listed))
    => LET n == ToNumber(Get(Listed[FirstEarliest(Listed)], "id"))
       IN IF n.t = "num" /\ n.v # 0
          THEN /\ Len(calls) = 2
               /\ IsUpdate(calls[2])
               /\ calls[2].body.id = n
               /\ Succeeded => sent[1].body.billing_attempt_id = n
          ELSE Len(calls) = 1 /\ Responded

C5_Witness ==
  /\ LookupSucceeded
  /\ Len(Listed) = 2
  /\ Instant(Listed[1]) = 2
  /\ Instant(Listed[2]) = 1
  /\ Get(Listed[1], "id") = Num(1)
  /\ Succeeded
  /\ sent[1].body.billing_attempt_id = Num(2)

\* C6 as claimed: a successful lookup that lists no attempt is answered 200
\* "no_billing_attempt_found" without a reschedule PUT, and that reason is
\* given only when the list was empty.
C6_OnlyWhenEmpty ==
  /\ (LookupSucceeded /\ Listed = <<>>)
       => /\ Responded
          /\ sent[1].status = 200
          /\ Reason(sent[1]) = "no_billing_attempt_found"
          /\ Len(calls) = 1
  /\ (RescheduleRan /\ Responded /\ Reason(sent[1]) = "no_billing_attempt_found")
       => LookupSucceeded /\ Listed = <<>>

\* the id of the attempt the handler settled on is 0 or no number
ChosenIdUnusable ==
  loc.arr # <<>> /\ ~(ToNumber(Get(loc.arr[1], "id")).t = "num" /\ ToNumber(Get(loc.arr[1], "id")).v # 0)

\* C6 as amended: "no_billing_attempt_found" (HTTP 200, no reschedule PUT) is
\* the answer exactly when the lookup succeeded and either listed no attempt
\* or the chosen attempt's id converts to 0 or NaN.
C6_NoAttemptFound ==
  /\ (LookupSucceeded /\ (Listed = <<>> \/ ChosenIdUnusable))
       => /\ Responded
          /\ sent[1].status = 200
          /\ Reason(sent[1]) = "no_billing_attempt_found"
          /\ Len(calls) = 1
  /\ (RescheduleRan /\ Responded /\ Reason(sent[1]) = "no_billing_attempt_found")
       => LookupSucceeded /\ (Listed = <<>> \/ ChosenIdUnusable)

C6_Witness ==
  /\ LookupSucceeded
  /\ req.body.attempt_id = Undef
  /\ replies[1].ct = "json"
  /\ Get(LookupEnvelope, "payload") = Arr(<<>>)
  /\ Reason(sent[1]) = "no_billing_attempt_found"
  /\ Len(calls) = 1

\* a field left out, empty or blank
Blank(x) == x = Undef \/ (x.t = "str" /\ \A i \in DOMAIN x.v : x.v[i] = " ")

ValidId == PathId(req).t = "num" /\ PathId(req).v # 0

\* C7: with a valid subscription id, a request in which date, time or
\* timezone is left out, empty or blank is answered 400 and no upstream call
\* is made for it.
C7_MissingFieldIs400 ==
  (RescheduleRan /\ ValidId
     /\ (Blank(req.body.date) \/ Blank(req.body.time) \/ Blank(req.body.timezone)))
    => Responded /\ sent[1].status = 400 /\ calls = <<>>

\* C8: a non-2xx answer to an upstream call ends the request at once with
\* HTTP 200 and "upstream_error" carrying that answer's status and body; it is
\* the last answer, and there are as many calls as answers.
C8_UpstreamError ==
  \A i \in DOMAIN replies :
    (replies[i].kind = "resp" /\ replies[i].status \notin 200..299)
      => /\ Responded
         /\ i = Len(replies)
         /\ Len(calls) = i
         /\ Len(sent) = 1
         /\ sent[1].status = 200
         /\ Reason(sent[1]) = "upstream_error"
         /\ sent[1].body.error.status = replies[i].status
         /\ sent[1].body.error.body =
              (CASE replies[i].ct = "json" -> replies[i].payload
                 [] replies[i].ct = "badjson" -> EmptyObj
                 [] OTHER -> NonJson)

C8_Witness ==
  /\ Responded
  /\ req.op = "reschedule"
  /\ Len(replies) = 2
  /\ replies[2].kind = "resp"
  /\ replies[2].status = 404
  /\ Reason(sent[1]) = "upstream_error"
  /\ sent[1].body.error.status = 404

\* date, time and timezone are all strings with something left after trimming
Validated ==
  \A x \in {req.body.date, req.body.time, req.body.timezone} :
    x.t = "str" /\ \E i \in DOMAIN x.v : x.v[i] # " "

HasLookup == \E i \in DOMAIN calls : IsLookup(calls[i])

\* what every reschedule request keeps to, whenever the lookup is made
ReschedulePath ==
  /\ Len(calls) <= 2
  /\ \A i \in DOMAIN calls : IsLookup(calls[i]) => i = 1
  /\ \A i \in DOMAIN calls : IsUpdate(calls[i]) => i = Len(calls)
  /\ \A i \in DOMAIN calls : IsLookup(calls[i]) \/ IsUpdate(calls[i])
  /\ Len(calls) = 2 => IsLookup(calls[1]) /\ IsUpdate(calls[2])
  /\ UpdateIssued
       => /\ calls[Len(calls)].body.id.t = "num"
          /\ calls[Len(calls)].body.id.v # 0
          /\ HasLookup => HasStatus2xx(replies[1])
  /\ pc = "await_lookup" => calls # <<>> /\ IsLookup(calls[Len(calls)]) /\ replies = <<>>
  /\ pc = "await_update" => UpdateIssued /\ Len(replies) = Len(calls) - 1
  /\ pc \in {"await_lookup", "await_update"} => sent = <<>>
  /\ Responded => Len(sent) = 1 /\ Len(replies) = Len(calls)
  /\ pc \in {"await_lookup", "await_update", "responded"}

Rank(p) ==
  CASE p = "idle" -> 0
    [] p = "await_lookup" -> 1
    [] p = "await_update" -> 2
    [] p = "responded" -> 3
    [] OTHER -> 4

\* a step of a reschedule request only moves on, and only adds calls
MovesOn ==
  (req'.op = "reschedule")
    => /\ Rank(pc') > Rank(pc)
       /\ Len(calls') >= Len(calls)
       /\ SubSeq(calls', 1, Len(calls)) = calls
       /\ sent # <<>> => sent' = sent

\* C9 as claimed: a reschedule request moves validating -> resolving_attempt
\* -> rescheduling -> responded without going back, makes at most the lookup
\* and then the update, each once, the lookup exactly when validation passed
\* and attempt_id is absent or zero, and sends one response after the last call.
C9_LookupWhenAbsentOrZero ==
  RescheduleRan
    => /\ ReschedulePath
       /\ HasLookup <=> (ValidId /\ Validated
                          /\ req.body.attempt_id \in {Undef, Num(0)})

\* the caller's attempt_id is falsy or Number() makes it 0 or NaN
NoUsableAttemptId ==
  \/ req.body.attempt_id \in {Undef, Num(0), Str(<<>>), Bool(FALSE)}
  \/ ToNumber(req.body.attempt_id) \in {NaN, Num(0)}

\* C9 as amended: the same, with the lookup made exactly when validation
\* passed and attempt_id is absent, falsy, or converts to 0 or NaN.
C9_StateMachine ==
  /\ [](RescheduleRan
         => /\ ReschedulePath
            /\ HasLookup <=> (ValidId /\ Validated /\ NoUsableAttemptId))
  /\ [][MovesOn]_vars

C9_Witness ==
  /\ Succeeded
  /\ req.op = "reschedule"
  /\ req.body.attempt_id = Str(<<"a", "b", "c">>)
  /\ Len(calls) = 2
  /\ Len(replies) = 2

\* C10: the reset_schedule sent in the reschedule PUT is true when the caller
\* leaves it out or sends true, and false when the caller sends false.
C10_ResetScheduleFollowsCaller ==
  (RescheduleRan /\ UpdateIssued)
    => IF req.body.reset_schedule = Bool(FALSE)
       THEN calls[Len(calls)].body.reset_schedule = Bool(FALSE)
       ELSE calls[Len(calls)].body.reset_schedule \in {Bool(TRUE), Lit("true")}

====
